---------------------------- MODULE Spec2Model ----------------------------
(***************************************************************************)
(* The reference-resolving renderer of src/code.py: resolve_reference,     *)
(* json_to_html, process_text_item, process_table_item,                    *)
(* process_picture_item and escape_html.                                   *)
(*                                                                         *)
(* A Python str is a sequence of one-character strings, so that trimming,  *)
(* splitting, prefix tests, replacing and escaping are computed character  *)
(* by character.  A JSON value is a tagged record (see "Python values").   *)
(* A call that may raise returns [exc, val]: exc is "none" or the name of  *)
(* the Python exception.                                                   *)
(***************************************************************************)
EXTENDS Integers, Sequences, FiniteSets, TLC

VARIABLES
    json_content,   \* the argument of json_to_html
    pc,             \* where the running call stands
    children,       \* json_content['body']['children'] once read (line 108)
    idx,            \* 1-based position of the for loop of line 111
    html_parts,     \* the list of line 104
    ret,            \* the value returned by the call under check
    exc,            \* "none", or the exception that left the call
    stdout,         \* the references warned about on line 127, in order
    item            \* the argument of the typed renderer under check

vars == <<json_content, pc, children, idx, html_parts, ret, exc, stdout, item>>

---------------------------------------------------------------------------
(* Python str operations *)

NL == "\n"

Whitespace == {" ", "\t", NL}

Digits == <<"0", "1", "2", "3", "4", "5", "6", "7", "8", "9">>

DigitSet == {Digits[k] : k \in 1..10}

DigitValue(c) == (CHOOSE k \in 1..10 : Digits[k] = c) - 1

\* str.isdigit(): non-empty and every character a digit
IsDigit(s) == Len(s) > 0 /\ \A k \in 1..Len(s) : s[k] \in DigitSet

RECURSIVE ParseInt(_)
\* int(s) for a string of digits
ParseInt(s) ==
    IF Len(s) = 0 THEN 0
    ELSE 10 * ParseInt(SubSeq(s, 1, Len(s) - 1)) + DigitValue(s[Len(s)])

RECURSIVE IntToStr(_)
\* str(n) for an int
IntToStr(n) ==
    IF n < 0 THEN <<"-">> \o IntToStr(0 - n)
    ELSE IF n < 10 THEN <<Digits[n + 1]>>
    ELSE IntToStr(n \div 10) \o <<Digits[(n % 10) + 1]>>

\* str.strip(): from the first to the last character that is not whitespace
Strip(s) ==
    LET inked == {k \in 1..Len(s) : s[k] \notin Whitespace}
    IN  IF inked = {} THEN <<>>
        ELSE SubSeq(s, CHOOSE k \in inked : \A m \in inked : k <= m,
                       CHOOSE k \in inked : \A m \in inked : k >= m)

\* str.startswith(p)
StartsWith(s, p) == Len(s) >= Len(p) /\ SubSeq(s, 1, Len(p)) = p

\* `sub in s` for two strs
Contains(s, sub) ==
    \E k \in 0..(Len(s) - Len(sub)) : SubSeq(s, k + 1, k + Len(sub)) = sub

RECURSIVE Concat(_, _, _)
\* parts[lo] \o ... \o parts[hi]
Concat(parts, lo, hi) ==
    IF lo > hi THEN <<>>
    ELSE IF lo = hi THEN parts[lo]
    ELSE Concat(parts, lo, (lo + hi) \div 2) \o Concat(parts, ((lo + hi) \div 2) + 1, hi)

RECURSIVE ReplaceFrom(_, _, _)
\* str.replace(old, new) for Len(old) > 1: the leftmost occurrence, then the
\* rest of the string after it
ReplaceFrom(s, old, new) ==
    LET starts == {k \in 1..(Len(s) - Len(old) + 1) : SubSeq(s, k, k + Len(old) - 1) = old}
        first == CHOOSE k \in starts : \A m \in starts : k <= m
    IN  IF starts = {} THEN s
        ELSE SubSeq(s, 1, first - 1) \o new
             \o ReplaceFrom(SubSeq(s, first + Len(old), Len(s)), old, new)

\* str.replace(old, new), old non-empty: left to right, non-overlapping
Replace(s, old, new) ==
    IF Len(old) = 1
    THEN Concat([k \in 1..Len(s) |-> IF s[k] = old[1] THEN new ELSE <<s[k]>>], 1, Len(s))
    ELSE ReplaceFrom(s, old, new)

RECURSIVE SplitOn(_, _)
\* str.split(sep) for a one-character separator: always at least one part
SplitOn(s, sep) ==
    IF \A k \in 1..Len(s) : s[k] # sep THEN <<s>>
    ELSE LET k == CHOOSE j \in 1..Len(s) :
                      s[j] = sep /\ \A m \in 1..(j - 1) : s[m] # sep
         IN  <<SubSeq(s, 1, k - 1)>> \o SplitOn(SubSeq(s, k + 1, Len(s)), sep)

RECURSIVE Join(_, _)
\* sep.join(parts)
Join(parts, sep) ==
    IF Len(parts) = 0 THEN <<>>
    ELSE IF Len(parts) = 1 THEN parts[1]
    ELSE parts[1] \o sep \o Join(Tail(parts), sep)

RECURSIVE KeyOf(_)
\* the dict key a str names
KeyOf(s) == IF Len(s) = 0 THEN "" ELSE Head(s) \o KeyOf(Tail(s))

---------------------------------------------------------------------------
(* String literals of the source *)

\* resolve_reference and the dispatch prefixes (src/code.py:80, 119-123)
REF_MARKER == <<"#", "/">>
PREFIX_TEXTS == <<"#", "/", "t", "e", "x", "t", "s", "/">>
PREFIX_TABLES == <<"#", "/", "t", "a", "b", "l", "e", "s", "/">>
PREFIX_PICTURES == <<"#", "/", "p", "i", "c", "t", "u", "r", "e", "s", "/">>

\* keys tested with `in` (src/code.py:107, 112, 194, 244)
KEY_body == <<"b", "o", "d", "y">>
KEY_ref == <<"$", "r", "e", "f">>
KEY_children == <<"c", "h", "i", "l", "d", "r", "e", "n">>
KEY_data == <<"d", "a", "t", "a">>
KEY_grid == <<"g", "r", "i", "d">>

\* labels of process_text_item (src/code.py:151, 177, 179)
LABEL_paragraph == <<"p", "a", "r", "a", "g", "r", "a", "p", "h">>
LABEL_title == <<"t", "i", "t", "l", "e">>
LABEL_heading == <<"h", "e", "a", "d", "i", "n", "g">>

\* markup of process_text_item (src/code.py:159-182)
P_OPEN == <<"<", "p", ">">>
P_CLOSE == <<"<", "/", "p", ">">>
STRONG_OPEN == <<"<", "s", "t", "r", "o", "n", "g", ">">>
STRONG_CLOSE == <<"<", "/", "s", "t", "r", "o", "n", "g", ">">>
H2_OPEN == <<"<", "h", "2", ">">>
H2_CLOSE == <<"<", "/", "h", "2", ">">>
EM_OPEN == <<"<", "e", "m", ">">>
EM_CLOSE == <<"<", "/", "e", "m", ">">>
U_OPEN == <<"<", "u", ">">>
U_CLOSE == <<"<", "/", "u", ">">>
DEL_OPEN == <<"<", "d", "e", "l", ">">>
DEL_CLOSE == <<"<", "/", "d", "e", "l", ">">>
H1_OPEN == <<"<", "h", "1", ">">>
H1_CLOSE == <<"<", "/", "h", "1", ">">>
H3_OPEN == <<"<", "h", "3", ">">>
H3_CLOSE == <<"<", "/", "h", "3", ">">>

\* markup of process_table_item (src/code.py:201-227)
TABLE_OPEN == <<"<", "t", "a", "b", "l", "e", ">">>
TR_OPEN == <<" ", " ", "<", "t", "r", ">">>
TR_CLOSE == <<" ", " ", "<", "/", "t", "r", ">">>
TABLE_CLOSE == <<"<", "/", "t", "a", "b", "l", "e", ">">>
CELL_INDENT == <<" ", " ", " ", " ", "<">>
CLOSE_TAG_START == <<"<", "/">>
ROWSPAN_ATTR == <<" ", "r", "o", "w", "s", "p", "a", "n", "=", "\"">>
COLSPAN_ATTR == <<" ", "c", "o", "l", "s", "p", "a", "n", "=", "\"">>
TAG_th == <<"t", "h">>
TAG_td == <<"t", "d">>

\* markup of process_picture_item (src/code.py:245-254)
PLACEHOLDER ==
    <<"<", "d", "i", "v", " ", "c", "l", "a", "s", "s", "=", "\"", "i", "m", "a", "g", "e",
      "-", "p", "l", "a", "c", "e", "h", "o", "l", "d", "e", "r", "\"", ">", "[", "M", "i",
      "s", "s", "i", "n", "g", " ", "I", "m", "a", "g", "e", "]", "<", "/", "d", "i", "v", ">">>
FORMAT_png == <<"p", "n", "g">>
DATA_URI_HEAD == <<"d", "a", "t", "a", ":", "i", "m", "a", "g", "e", "/">>
DATA_URI_SEP == <<";", "b", "a", "s", "e", "6", "4", ",">>
IMG_HEAD == <<"<", "i", "m", "g", " ", "s", "r", "c", "=", "\"">>
IMG_TAIL ==
    <<"\"", " ", "a", "l", "t", "=", "\"", "E", "m", "b", "e", "d", "d", "e", "d", " ", "I",
      "m", "a", "g", "e", "\"", " ", "s", "t", "y", "l", "e", "=", "\"", "m", "a", "x", "-",
      "w", "i", "d", "t", "h", ":", "1", "0", "0", "%", ";", " ", "h", "e", "i", "g", "h", "t",
      ":", "a", "u", "t", "o", ";", " ", "m", "a", "r", "g", "i", "n", ":", "1", "0", "p", "x",
      " ", "0", ";", "\"", " ", "/", ">">>

\* entities of escape_html (src/code.py:271-275)
ENT_amp == <<"&", "a", "m", "p", ";">>
ENT_lt == <<"&", "l", "t", ";">>
ENT_gt == <<"&", "g", "t", ";">>
ENT_quot == <<"&", "q", "u", "o", "t", ";">>
ENT_apos == <<"&", "#", "x", "2", "7", ";">>

\* str() of the non-string scalars (src/code.py:268 and the f-strings)
REPR_None == <<"N", "o", "n", "e">>
REPR_True == <<"T", "r", "u", "e">>
REPR_False == <<"F", "a", "l", "s", "e">>

---------------------------------------------------------------------------
(* Python values: the JSON document and what the code computes from it *)

PyNone == [t |-> "none", v |-> <<>>]
PyStr(s) == [t |-> "str", v |-> s]
PyInt(n) == [t |-> "int", v |-> <<n>>]
PyBool(b) == [t |-> "bool", v |-> <<b>>]
PyList(s) == [t |-> "list", v |-> s]
PyDict(f) == [t |-> "dict", v |-> f]

EmptyDict == PyDict(<<>>)

Ok(x) == [exc |-> "none", val |-> x]
Raise(e) == [exc |-> e, val |-> PyNone]

\* the rest of a function after a call that may raise: the exception leaves
\* the function, a value goes on to `rest`
Then(r, rest(_)) == IF r.exc # "none" THEN r ELSE rest(r.val)

\* bool(x)
Truthy(x) ==
    CASE x.t = "none" -> FALSE
      [] x.t = "bool" -> x.v[1]
      [] x.t = "int" -> x.v[1] # 0
      [] OTHER -> x.v # <<>>

\* str(x) as the f-strings and escape_html (line 268) compute it
StrOf(x) ==
    CASE x.t = "str" -> x.v
      [] x.t = "none" -> REPR_None
      [] x.t = "int" -> IntToStr(x.v[1])
      [] x.t = "bool" -> IF x.v[1] THEN REPR_True ELSE REPR_False

\* `key in x`
PyIn(key, x) ==
    CASE x.t = "dict" -> Ok(KeyOf(key) \in DOMAIN x.v)
      [] x.t = "list" -> Ok(\E k \in 1..Len(x.v) : x.v[k] = PyStr(key))
      [] x.t = "str" -> Ok(Contains(x.v, key))
      [] OTHER -> Raise("TypeError")

\* x[key] for a str key
GetItem(x, key) ==
    IF x.t = "dict"
    THEN IF KeyOf(key) \in DOMAIN x.v THEN Ok(x.v[KeyOf(key)]) ELSE Raise("KeyError")
    ELSE Raise("TypeError")

\* x[n] for an int n >= 0
GetIndex(x, n) ==
    CASE x.t = "list" ->
            IF n < Len(x.v) THEN Ok(x.v[n + 1]) ELSE Raise("IndexError")
      [] x.t = "str" ->
            IF n < Len(x.v) THEN Ok(PyStr(<<x.v[n + 1]>>)) ELSE Raise("IndexError")
      [] x.t = "dict" -> Raise("KeyError")
      [] OTHER -> Raise("TypeError")

\* x.get(key, default), key given as the dict key: only a dict has the method
DictGet(x, key, default) ==
    IF x.t # "dict" THEN Raise("AttributeError")
    ELSE IF key \in DOMAIN x.v THEN Ok(x.v[key]) ELSE Ok(default)

\* x.strip(): only a str has the method
PyStrip(x) == IF x.t = "str" THEN Ok(Strip(x.v)) ELSE Raise("AttributeError")

\* x > n for an int n
GreaterThan(x, n) ==
    CASE x.t = "int" -> Ok(x.v[1] > n)
      [] x.t = "bool" -> Ok((IF x.v[1] THEN 1 ELSE 0) > n)
      [] OTHER -> Raise("TypeError")

\* what `for e in x` iterates over (a dict is never iterated by this code on
\* the documents modelled)
Iterate(x) ==
    CASE x.t = "list" -> Ok(x.v)
      [] x.t = "str" -> Ok([k \in 1..Len(x.v) |-> PyStr(<<x.v[k]>>)])
      [] x.t \in {"none", "int", "bool"} -> Raise("TypeError")

---------------------------------------------------------------------------
(* escape_html, lines 257-275 *)

escape_html(text) ==
    LET s0 == StrOf(text)
        s1 == Replace(s0, <<"&">>, ENT_amp)
        s2 == Replace(s1, <<"<">>, ENT_lt)
        s3 == Replace(s2, <<">">>, ENT_gt)
        s4 == Replace(s3, <<"\"">>, ENT_quot)
    IN  Replace(s4, <<"'">>, ENT_apos)

---------------------------------------------------------------------------
(* resolve_reference, lines 68-90 *)

\* line 80
PathOf(ref_string) == SplitOn(Replace(ref_string, REF_MARKER, <<>>), "/")

RECURSIVE Navigate(_, _)
\* lines 83-90: the loop over the path, from `current`
Navigate(current, path) ==
    IF Len(path) = 0 THEN Ok(current)
    ELSE Then(IF IsDigit(Head(path))
              THEN GetIndex(current, ParseInt(Head(path)))
              ELSE GetItem(current, Head(path)),
              LAMBDA next : Navigate(next, Tail(path)))

resolve_reference(ref_string, doc) == Navigate(doc, PathOf(ref_string))

---------------------------------------------------------------------------
(* process_text_item, lines 133-182 *)

HeadingLen == 50

\* ApplyOtherFormatting with the underline test moved ahead of the italic
\* test: the fault C6's priority order excludes
ApplyOtherFormatting_UnderlineFirst(formatting, text) ==
    LET esc == escape_html(PyStr(text))
    IN  IF Truthy(DictGet(formatting, "underline", PyNone).val)
        THEN U_OPEN \o esc \o U_CLOSE
        ELSE IF Truthy(DictGet(formatting, "italic", PyNone).val)
        THEN EM_OPEN \o esc \o EM_CLOSE
        ELSE IF Truthy(DictGet(formatting, "strikethrough", PyNone).val)
        THEN DEL_OPEN \o esc \o DEL_CLOSE
        ELSE esc

\* lines 165-172: at most one emphasis tag around the escaped text
ApplyOtherFormatting(formatting, text) ==
    LET esc == escape_html(PyStr(text))
    IN  IF Truthy(DictGet(formatting, "italic", PyNone).val)
        THEN EM_OPEN \o esc \o EM_CLOSE
        ELSE IF Truthy(DictGet(formatting, "underline", PyNone).val)
        THEN U_OPEN \o esc \o U_CLOSE
        ELSE IF Truthy(DictGet(formatting, "strikethrough", PyNone).val)
        THEN DEL_OPEN \o esc \o DEL_CLOSE
        ELSE esc

\* WrapElement with the label tested before html_tag: the fault C10's
\* "whatever the label" excludes
WrapElement_LabelFirst(html_tag, label, text) ==
    IF label = PyStr(LABEL_title) THEN H1_OPEN \o text \o H1_CLOSE
    ELSE IF label = PyStr(LABEL_heading) THEN H3_OPEN \o text \o H3_CLOSE
    ELSE IF html_tag = "h2" THEN H2_OPEN \o text \o H2_CLOSE
    ELSE P_OPEN \o text \o P_CLOSE

\* lines 175-182: the element, from html_tag and the label
WrapElement(html_tag, label, text) ==
    IF html_tag = "h2" THEN H2_OPEN \o text \o H2_CLOSE
    ELSE IF label = PyStr(LABEL_title) THEN H1_OPEN \o text \o H1_CLOSE
    ELSE IF label = PyStr(LABEL_heading) THEN H3_OPEN \o text \o H3_CLOSE
    ELSE P_OPEN \o text \o P_CLOSE

\* HtmlTagOf with the boundary off by one (>= for >): the fault C5's
\* "exactly 50" excludes
HtmlTagOf_AtLeast(bold, text) ==
    IF Truthy(bold)
    THEN IF Len(text) >= HeadingLen THEN "h2" ELSE "strong"
    ELSE "p"

\* lines 154-162: "strong" stands for the early return of line 160
HtmlTagOf(bold, text) ==
    IF Truthy(bold)
    THEN IF Len(text) > HeadingLen THEN "h2" ELSE "strong"
    ELSE "p"

process_text_item(text_item) ==
    Then(DictGet(text_item, "text", PyStr(<<>>)), LAMBDA got :
    Then(PyStrip(got), LAMBDA text :
    IF Len(text) = 0 THEN Ok(<<>>)
    ELSE
    Then(DictGet(text_item, "formatting", EmptyDict), LAMBDA formatting :
    Then(DictGet(text_item, "label", PyStr(LABEL_paragraph)), LAMBDA label :
    Then(DictGet(formatting, "bold", PyNone), LAMBDA bold :
    IF HtmlTagOf(bold, text) = "strong"
    THEN Ok(P_OPEN \o STRONG_OPEN \o escape_html(PyStr(text))
            \o STRONG_CLOSE \o P_CLOSE)
    ELSE Ok(WrapElement(HtmlTagOf(bold, text), label,
                        ApplyOtherFormatting(formatting, text))))))))

---------------------------------------------------------------------------
(* process_table_item, lines 184-229 *)

\* SpanAttrs with colspan written ahead of rowspan: the fault C7's
\* attribute order excludes
SpanAttrs_ColFirst(row_span, col_span) ==
    (IF GreaterThan(col_span, 1).val
     THEN COLSPAN_ATTR \o StrOf(col_span) \o <<"\"">> ELSE <<>>)
    \o (IF GreaterThan(row_span, 1).val
        THEN ROWSPAN_ATTR \o StrOf(row_span) \o <<"\"">> ELSE <<>>)

\* lines 217-221
SpanAttrs(row_span, col_span) ==
    (IF GreaterThan(row_span, 1).val
     THEN ROWSPAN_ATTR \o StrOf(row_span) \o <<"\"">> ELSE <<>>)
    \o (IF GreaterThan(col_span, 1).val
        THEN COLSPAN_ATTR \o StrOf(col_span) \o <<"\"">> ELSE <<>>)

\* lines 210-211
CellTag(cell) ==
    IF Truthy(DictGet(cell, "column_header", PyBool(FALSE)).val)
       \/ Truthy(DictGet(cell, "row_header", PyBool(FALSE)).val)
    THEN TAG_th ELSE TAG_td

\* lines 207-223: the line one cell appends to html_parts
CellLine(cell) ==
    Then(DictGet(cell, "text", PyStr(<<>>)), LAMBDA got :
    Then(PyStrip(got), LAMBDA cell_text :
    Then(DictGet(cell, "row_span", PyInt(1)), LAMBDA row_span :
    Then(DictGet(cell, "col_span", PyInt(1)), LAMBDA col_span :
    Then(GreaterThan(row_span, 1), LAMBDA tall :
    Then(GreaterThan(col_span, 1), LAMBDA wide :
    Ok(CELL_INDENT \o CellTag(cell) \o SpanAttrs(row_span, col_span) \o <<">">>
       \o escape_html(PyStr(cell_text))
       \o CLOSE_TAG_START \o CellTag(cell) \o <<">">>)))))))

RECURSIVE CellLines(_)
\* lines 206-223: the inner loop over the cells of one row
CellLines(cells) ==
    IF Len(cells) = 0 THEN Ok(<<>>)
    ELSE Then(CellLine(Head(cells)), LAMBDA first :
         Then(CellLines(Tail(cells)), LAMBDA rest :
         Ok(<<first>> \o rest)))

RECURSIVE RowLines(_)
\* lines 203-225: the outer loop over the rows of the grid
RowLines(rows) ==
    IF Len(rows) = 0 THEN Ok(<<>>)
    ELSE Then(Iterate(Head(rows)), LAMBDA cells :
         Then(CellLines(cells), LAMBDA first :
         Then(RowLines(Tail(rows)), LAMBDA rest :
         Ok(<<TR_OPEN>> \o first \o <<TR_CLOSE>> \o rest))))

process_table_item(table_item) ==
    Then(PyIn(KEY_data, table_item), LAMBDA hasData :
    IF ~hasData THEN Ok(<<>>)
    ELSE
    Then(GetItem(table_item, KEY_data), LAMBDA data :
    Then(PyIn(KEY_grid, data), LAMBDA hasGrid :
    IF ~hasGrid THEN Ok(<<>>)
    ELSE
    Then(GetItem(data, KEY_grid), LAMBDA grid :
    IF ~Truthy(grid) THEN Ok(<<>>)
    ELSE
    Then(Iterate(grid), LAMBDA rows :
    Then(RowLines(rows), LAMBDA lines :
    Ok(Join(<<TABLE_OPEN>> \o lines \o <<TABLE_CLOSE>>, <<NL>>))))))))

---------------------------------------------------------------------------
(* process_picture_item, lines 233-254 *)

process_picture_item(picture_item) ==
    Then(PyIn(KEY_data, picture_item), LAMBDA hasData :
    IF ~hasData THEN Ok(PLACEHOLDER)
    ELSE
    Then(GetItem(picture_item, KEY_data), LAMBDA img_data :
    Then(DictGet(picture_item, "format", PyStr(FORMAT_png)), LAMBDA img_format :
    Ok(IMG_HEAD \o DATA_URI_HEAD \o StrOf(img_format)
       \o DATA_URI_SEP \o StrOf(img_data) \o IMG_TAIL))))

---------------------------------------------------------------------------
(* json_to_html, lines 92-131 *)

\* Caught without IndexError: the fault C2's out-of-bounds case excludes
Caught_KeyErrorOnly == {"KeyError"}

\* line 126: the exceptions the loop recovers from
Caught == {"KeyError", "IndexError"}

\* lines 119-124: the typed renderer a reference's prefix selects
RendererOf(ref) ==
    IF StartsWith(ref, PREFIX_TEXTS) THEN "text"
    ELSE IF StartsWith(ref, PREFIX_TABLES) THEN "table"
    ELSE IF StartsWith(ref, PREFIX_PICTURES) THEN "picture"
    ELSE "none"

\* lines 117-124, the body of the try: [exc, appended, val]
TryRender(ref, doc) ==
    LET content_item == resolve_reference(ref, doc)
        kind == RendererOf(ref)
        fragment == CASE kind = "text" -> process_text_item(content_item.val)
                      [] kind = "table" -> process_table_item(content_item.val)
                      [] kind = "picture" -> process_picture_item(content_item.val)
    IN  IF content_item.exc # "none"
        THEN [exc |-> content_item.exc, appended |-> FALSE, val |-> <<>>]
        ELSE IF kind = "none"
        THEN [exc |-> "none", appended |-> FALSE, val |-> <<>>]
        ELSE IF fragment.exc # "none"
        THEN [exc |-> fragment.exc, appended |-> FALSE, val |-> <<>>]
        ELSE [exc |-> "none", appended |-> TRUE, val |-> fragment.val]

\* lines 112-128, one pass of the loop body for `child`:
\* [exc, appended, val, warned]; exc is what leaves the loop body
ChildOutcome(child, doc) ==
    LET skip == [exc |-> "none", appended |-> FALSE, val |-> <<>>, warned |-> FALSE]
        hasRef == PyIn(KEY_ref, child)
        ref == GetItem(child, KEY_ref)
    IN  IF hasRef.exc # "none" THEN [skip EXCEPT !.exc = hasRef.exc]
        ELSE IF ~hasRef.val THEN skip
        ELSE IF ref.exc # "none" THEN [skip EXCEPT !.exc = ref.exc]
        ELSE IF ref.val.t # "str" THEN [skip EXCEPT !.exc = "AttributeError"]
        ELSE LET r == TryRender(ref.val.v, doc)
             IN  IF r.exc \in Caught THEN [skip EXCEPT !.warned = TRUE]
                 ELSE [exc |-> r.exc, appended |-> r.appended, val |-> r.val,
                       warned |-> FALSE]

\* line 131: filter(None, html_parts)
FilterNone(parts) == SelectSeq(parts, LAMBDA p : Len(p) > 0)

\* JoinParts without the filter of empty fragments: the fault C1's "no
\* blank line" excludes
JoinParts_NoFilter(parts) == Join(parts, <<NL>>)

\* line 131
JoinParts(parts) == Join(FilterNone(parts), <<NL>>)

\* lines 104-109: the test of line 107 and the read of line 108
ReadBody ==
    /\ pc = "start"
    /\ LET hasBody == PyIn(KEY_body, json_content)
           body == GetItem(json_content, KEY_body)
           hasChildren == PyIn(KEY_children, body.val)
           got == GetItem(body.val, KEY_children)
           listed == Iterate(got.val)
           failed == IF hasBody.exc # "none" THEN hasBody.exc
                     ELSE IF ~hasBody.val THEN "none"
                     ELSE IF hasChildren.exc # "none" THEN hasChildren.exc
                     ELSE IF ~hasChildren.val THEN "none"
                     ELSE IF got.exc # "none" THEN got.exc
                     ELSE listed.exc
           absent == ~hasBody.val \/ ~hasChildren.val
       IN  IF failed # "none"
           THEN /\ pc' = "raised"
                /\ exc' = failed
                /\ UNCHANGED children
           ELSE IF absent
           THEN /\ pc' = "join"
                /\ UNCHANGED <<exc, children>>
           ELSE /\ pc' = "loop"
                /\ children' = listed.val
                /\ UNCHANGED exc
    /\ UNCHANGED <<json_content, idx, html_parts, ret, stdout, item>>

\* lines 111-128: one iteration of the for loop
ForChild ==
    /\ pc = "loop"
    /\ idx <= Len(children)
    /\ LET o == ChildOutcome(children[idx], json_content)
       IN  IF o.exc # "none"
           THEN /\ pc' = "raised"
                /\ exc' = o.exc
                /\ UNCHANGED <<idx, html_parts, stdout>>
           ELSE /\ idx' = idx + 1
                /\ html_parts' = IF o.appended THEN Append(html_parts, o.val)
                                 ELSE html_parts
                /\ stdout' = IF o.warned
                             THEN Append(stdout, children[idx].v["$ref"].v)
                             ELSE stdout
                /\ UNCHANGED <<pc, exc>>
    /\ UNCHANGED <<json_content, children, ret, item>>

\* line 111: the for loop is exhausted
ExitLoop ==
    /\ pc = "loop"
    /\ idx > Len(children)
    /\ pc' = "join"
    /\ UNCHANGED <<json_content, children, idx, html_parts, ret, exc, stdout, item>>

\* line 131
Return ==
    /\ pc = "join"
    /\ ret' = JoinParts(html_parts)
    /\ pc' = "done"
    /\ UNCHANGED <<json_content, children, idx, html_parts, exc, stdout, item>>

---------------------------------------------------------------------------
(* The documents json_to_html is run on *)

\* a dict from a set of <<key, value>> pairs
DictOf(pairs) ==
    PyDict([k \in {p[1] : p \in pairs} |-> (CHOOSE p \in pairs : p[1] = k)[2]])

MaxChildren == 3

REF_text0 == <<"#", "/", "t", "e", "x", "t", "s", "/", "0">>
REF_text1 == <<"#", "/", "t", "e", "x", "t", "s", "/", "1">>
REF_text99 == <<"#", "/", "t", "e", "x", "t", "s", "/", "9", "9">>
REF_table0 == <<"#", "/", "t", "a", "b", "l", "e", "s", "/", "0">>
REF_table1 == <<"#", "/", "t", "a", "b", "l", "e", "s", "/", "1">>
REF_picture0 == <<"#", "/", "p", "i", "c", "t", "u", "r", "e", "s", "/", "0">>
REF_group0 == <<"#", "/", "g", "r", "o", "u", "p", "s", "/", "0">>
REF_nokey == <<"#", "/", "f", "o", "o", "t", "n", "o", "t", "e", "s", "/", "0">>
REF_negative == <<"#", "/", "t", "e", "x", "t", "s", "/", "-", "1">>
REF_into_text == <<"#", "/", "t", "e", "x", "t", "s", "/", "0", "/", "t", "e", "x", "t">>
REF_bare == <<"t", "e", "x", "t", "s", "/", "0">>

Refs ==
    {REF_text0, REF_text1, REF_text99, REF_table0, REF_table1, REF_picture0,
     REF_group0, REF_nokey, REF_negative, REF_into_text, REF_bare}

\* an entry of body.children: a reference, or an entry that carries none
Entries ==
    {DictOf({<<"$ref", PyStr(r)>>}) : r \in Refs} \cup {DictOf({<<"name", PyStr(<<"g">>)>>})}

RECURSIVE SeqsUpTo(_, _)
SeqsUpTo(S, n) ==
    IF n = 0 THEN {<<>>}
    ELSE LET shorter == SeqsUpTo(S, n - 1)
         IN  shorter \cup {Append(s, e) : s \in {t \in shorter : Len(t) = n - 1}, e \in S}

HeaderCell == DictOf({<<"text", PyStr(<<"h", "&">>)>>, <<"column_header", PyBool(TRUE)>>})
SpanCell ==
    DictOf({<<"text", PyStr(<<" ", "c", "<">>)>>, <<"row_span", PyInt(2)>>,
            <<"col_span", PyInt(1)>>})

\* the node collections: two documents' worth
Collections ==
    { [texts |-> PyList(<<DictOf({<<"text", PyStr(<<" ", "a", "<", "b", " ">>)>>,
                                  <<"label", PyStr(LABEL_title)>>}),
                          DictOf({<<"text", PyStr(<<" ", " ">>)>>})>>),
       tables |-> PyList(<<DictOf({<<"data",
                              DictOf({<<"grid", PyList(<<PyList(<<HeaderCell, SpanCell>>)>>)>>})>>}),
                           DictOf({<<"label", PyStr(<<"t">>)>>})>>),
       pictures |-> PyList(<<DictOf({<<"data", PyStr(<<"Q", "Q", "=", "=">>)>>,
                                     <<"format", PyStr(<<"j", "p", "e", "g">>)>>})>>),
       groups |-> PyList(<<DictOf({<<"name", PyStr(<<"g">>)>>})>>)],
      [texts |-> PyList(<<DictOf({<<"text", PyStr(<<"x", "&", "y">>)>>,
                                  <<"formatting", DictOf({<<"italic", PyBool(TRUE)>>})>>}),
                          DictOf({<<"text", PyStr(<<"'", "q", "'">>)>>,
                                  <<"formatting", DictOf({<<"bold", PyBool(TRUE)>>})>>,
                                  <<"label", PyStr(LABEL_heading)>>})>>),
       tables |-> PyList(<<DictOf({<<"data", DictOf({<<"grid", PyList(<<>>)>>})>>})>>),
       pictures |-> PyList(<<DictOf({<<"format", PyStr(FORMAT_png)>>})>>),
       groups |-> PyList(<<>>)] }

\* what the document holds under 'body'
Bodies ==
    {DictOf({<<"children", PyList(c)>>}) : c \in SeqsUpTo(Entries, MaxChildren)}
    \cup {PyNone, EmptyDict, PyList(<<>>), PyStr(<<"x">>),
          DictOf({<<"name", PyStr(<<"b">>)>>}), DictOf({<<"children", PyNone>>})}

Documents ==
    {PyDict(c) : c \in Collections}
    \cup {PyDict([k \in DOMAIN c \cup {"body"} |-> IF k = "body" THEN b ELSE c[k]]) :
            c \in Collections, b \in Bodies}

Init ==
    /\ json_content \in Documents
    /\ pc = "start"
    /\ children = <<>>
    /\ idx = 1
    /\ html_parts = <<>>
    /\ ret = <<>>
    /\ exc = "none"
    /\ stdout = <<>>
    /\ item = PyNone

Next == ReadBody \/ ForChild \/ ExitLoop \/ Return

Spec == Init /\ [][Next]_vars

---------------------------------------------------------------------------
(* The typed renderers called on their own *)

MaxShort == 2
Margin == 1
MaxRows == 2
MaxCols == 2

Alphabet == {"a", "<", "&", "\"", " "}

Fill(c, n) == [k \in 1..n |-> c]

\* text content: every short string, one with the other two escaped
\* characters, and strings whose trimmed length lies around HeadingLen
TextContents ==
    SeqsUpTo(Alphabet, MaxShort)
    \cup {<<"'", ">", "\t">>}
    \cup {pad \o Fill(c, n) \o pad :
            pad \in {<<>>, <<" ">>}, c \in {"a", "&"},
            n \in (HeadingLen - Margin)..(HeadingLen + Margin)}

Flags == {"italic", "underline", "strikethrough"}

Formattings ==
    {DictOf({<<f, PyBool(TRUE)>> : f \in on}) : on \in SUBSET (Flags \cup {"bold"})}
    \cup {DictOf({<<f, PyBool(TRUE)>> : f \in on} \cup {<<"bold", PyBool(FALSE)>>}) :
            on \in SUBSET Flags}

Labels == {PyStr(LABEL_title), PyStr(LABEL_heading), PyStr(LABEL_paragraph),
           PyStr(<<"c", "a", "p", "t", "i", "o", "n">>)}

TextItems ==
    {DictOf({<<"text", PyStr(t)>>} \cup fs \cup ls) :
        t \in TextContents,
        fs \in {{}} \cup {{<<"formatting", f>>} : f \in Formattings},
        ls \in {{}} \cup {{<<"label", l>>} : l \in Labels}}
    \cup {DictOf({<<"label", PyStr(LABEL_title)>>})}

\* the cells the grids are filled from
CellPool ==
    << DictOf({<<"text", PyStr(<<"a">>)>>}),
       DictOf({<<"text", PyStr(<<" ", "<", "b", ">", " ">>)>>, <<"column_header", PyBool(TRUE)>>}),
       DictOf({<<"text", PyStr(<<"&">>)>>, <<"row_header", PyBool(TRUE)>>,
               <<"row_span", PyInt(2)>>}),
       DictOf({<<"text", PyStr(<<"c">>)>>, <<"row_span", PyInt(2)>>, <<"col_span", PyInt(1)>>}),
       DictOf({<<"text", PyStr(<<"d", "\"">>)>>, <<"col_span", PyInt(3)>>,
               <<"column_header", PyBool(FALSE)>>}),
       DictOf({<<"row_span", PyInt(12)>>, <<"col_span", PyInt(2)>>}),
       DictOf({<<"text", PyStr(<<>>)>>, <<"row_span", PyInt(1)>>, <<"col_span", PyInt(1)>>,
               <<"column_header", PyBool(TRUE)>>, <<"row_header", PyBool(TRUE)>>}),
       DictOf({<<"text", PyStr(<<"e">>)>>, <<"row_span", PyInt(0)>>, <<"col_span", PyInt(2)>>}) >>

\* grids of r rows and c columns filled from the pool, starting at cell o
Grids ==
    {PyList([i \in 1..r |->
                PyList([j \in 1..c |->
                    CellPool[((o + (i - 1) * c + (j - 1)) % Len(CellPool)) + 1]])]) :
        r \in 0..MaxRows, c \in 0..MaxCols, o \in 0..(Len(CellPool) - 1)}

TableItems ==
    {DictOf({<<"data", DictOf({<<"grid", g>>})>>}) : g \in Grids}
    \cup {EmptyDict, DictOf({<<"data", EmptyDict>>}),
          DictOf({<<"data", DictOf({<<"num_rows", PyInt(0)>>})>>})}

Payloads ==
    {PyNone, PyStr(<<>>), PyStr(<<"Q", "Q", "=", "=">>), PyStr(<<"Q", "\"", "<">>),
     PyStr(<<"a", "&", "b">>)}

Formats == {PyStr(<<"j", "p", "e", "g">>), PyStr(FORMAT_png), PyStr(<<"g", "\"", "f">>)}

PictureItems ==
    {DictOf(ds \cup fs) :
        ds \in {{}} \cup {{<<"data", d>>} : d \in Payloads},
        fs \in {{}} \cup {{<<"format", f>>} : f \in Formats}}

\* process_text_item called on `item`: the value returned, or the exception
CallText ==
    /\ pc = "text"
    /\ LET r == process_text_item(item)
       IN  /\ pc' = IF r.exc = "none" THEN "text_returned" ELSE "text_raised"
           /\ ret' = IF r.exc = "none" THEN r.val ELSE <<>>
           /\ exc' = r.exc
    /\ UNCHANGED <<json_content, children, idx, html_parts, stdout, item>>

\* process_table_item called on `item`
CallTable ==
    /\ pc = "table"
    /\ LET r == process_table_item(item)
       IN  /\ pc' = IF r.exc = "none" THEN "table_returned" ELSE "table_raised"
           /\ ret' = IF r.exc = "none" THEN r.val ELSE <<>>
           /\ exc' = r.exc
    /\ UNCHANGED <<json_content, children, idx, html_parts, stdout, item>>

\* process_picture_item called on `item`
CallPicture ==
    /\ pc = "picture"
    /\ LET r == process_picture_item(item)
       IN  /\ pc' = IF r.exc = "none" THEN "picture_returned" ELSE "picture_raised"
           /\ ret' = IF r.exc = "none" THEN r.val ELSE <<>>
           /\ exc' = r.exc
    /\ UNCHANGED <<json_content, children, idx, html_parts, stdout, item>>

InitRender ==
    /\ pc \in {"text", "table", "picture"}
    /\ item \in CASE pc = "text" -> TextItems
                  [] pc = "table" -> TableItems
                  [] pc = "picture" -> PictureItems
    /\ json_content = EmptyDict
    /\ children = <<>>
    /\ idx = 1
    /\ html_parts = <<>>
    /\ ret = <<>>
    /\ exc = "none"
    /\ stdout = <<>>

NextRender == CallText \/ CallTable \/ CallPicture

SpecRender == InitRender /\ [][NextRender]_vars

---------------------------------------------------------------------------
(* Properties of json_to_html, checked under Spec *)

\* the call has returned
Returned == pc = "done"

\* the reference an entry of body.children carries
HasRef(child) == "$ref" \in DOMAIN child.v
RefOf(child) == child.v["$ref"].v

\* the value a renderer returned, nothing when it raised
ValueOf(r) == IF r.exc = "none" THEN r.val ELSE <<>>

\* the fragment an entry stands for in json_content: the output of the typed
\* renderer its collection names, on the node it points to
EntryFragment(child) ==
    IF ~HasRef(child) THEN <<>>
    ELSE LET target == resolve_reference(RefOf(child), json_content)
         IN  IF target.exc # "none" THEN <<>>
             ELSE IF StartsWith(RefOf(child), PREFIX_TEXTS)
             THEN ValueOf(process_text_item(target.val))
             ELSE IF StartsWith(RefOf(child), PREFIX_TABLES)
             THEN ValueOf(process_table_item(target.val))
             ELSE IF StartsWith(RefOf(child), PREFIX_PICTURES)
             THEN ValueOf(process_picture_item(target.val))
             ELSE <<>>

\* the document has no pointer list: no body, a body that is no mapping, or a
\* body without children
NoPointerList ==
    \/ "body" \notin DOMAIN json_content.v
    \/ json_content.v["body"].t # "dict"
    \/ "children" \notin DOMAIN json_content.v["body"].v

\* the entries of body.children
BodyEntries == IF NoPointerList THEN <<>> ELSE json_content.v["body"].v["children"].v

RECURSIVE OffsetOf(_, _)
\* where the fragment of entry k starts in the newline-join of the non-empty
\* fragments of `entries`: after the earlier non-empty fragments, each
\* followed by one newline
OffsetOf(entries, k) ==
    IF k = 1 THEN 0
    ELSE OffsetOf(entries, k - 1)
         + (IF EntryFragment(entries[k - 1]) = <<>> THEN 0
            ELSE Len(EntryFragment(entries[k - 1])) + 1)

\* C1: when json_to_html returns, the returned string is exactly the
\* newline-join of the non-empty fragments of the entries of body.children in
\* body order: each non-empty fragment stands at the offset that the earlier
\* non-empty fragments and their newlines leave it, a newline separates it from
\* the one before, nothing follows the last one, and entries that do not
\* resolve, name no known collection or render empty take no room: no line of
\* the output is blank.
C1_OrderedJoin ==
    Returned =>
        LET n == Len(children)
            total == OffsetOf(children \o <<EmptyDict>>, n + 1)
        IN  /\ children = BodyEntries
            /\ Len(ret) = IF total = 0 THEN 0 ELSE total - 1
            /\ \A k \in 1..n :
                 LET f == EntryFragment(children[k])
                     at == OffsetOf(children, k)
                 IN  f # <<>> =>
                        /\ SubSeq(ret, at + 1, at + Len(f)) = f
                        /\ at > 0 => ret[at] = NL
            /\ ret # <<>> => \A line \in {SplitOn(ret, NL)[m] : m \in 1..Len(SplitOn(ret, NL))} :
                                line # <<>>

\* C1 witness: a returned call whose body holds two entries with non-empty
\* fragments and, between them, an entry that contributes nothing
C1_Witness ==
    /\ Returned
    /\ Len(children) = 3
    /\ EntryFragment(children[1]) # <<>>
    /\ EntryFragment(children[2]) = <<>>
    /\ EntryFragment(children[3]) # <<>>
    /\ EntryFragment(children[1]) # EntryFragment(children[3])

\* an entry whose reference names an index out of bounds or an absent key
Broken(child) ==
    /\ HasRef(child)
    /\ resolve_reference(RefOf(child), json_content).exc \in {"IndexError", "KeyError"}

\* the newline-join of the non-empty fragments of `entries`
RenderOf(entries) ==
    Join(SelectSeq([k \in 1..Len(entries) |-> EntryFragment(entries[k])],
                   LAMBDA f : f # <<>>), <<NL>>)

Intact(entries) == SelectSeq(entries, LAMBDA c : ~Broken(c))

\* C2: an entry whose index is out of bounds or whose key is absent never
\* makes json_to_html raise, adds nothing to the fragments collected, and
\* leaves the other entries' fragments as they are without it: at every point
\* of the loop the non-empty fragments collected are those of the entries
\* passed so far with the broken ones taken out, and the returned string is
\* the one the body renders to with its broken entries taken out.
C2_MissingReferenceSkipped ==
    /\ (pc = "raised" /\ idx <= Len(children)) => ~Broken(children[idx])
    /\ Join(FilterNone(html_parts), <<NL>>) = RenderOf(Intact(SubSeq(children, 1, idx - 1)))
    /\ Returned => ret = RenderOf(Intact(children))

\* C2 witness: a returned call whose middle entry points past the end of
\* texts, between two entries that rendered
C2_Witness ==
    /\ Returned
    /\ Len(children) = 3
    /\ HasRef(children[2])
    /\ resolve_reference(RefOf(children[2]), json_content).exc = "IndexError"
    /\ EntryFragment(children[1]) # <<>>
    /\ EntryFragment(children[3]) # <<>>
    /\ ret = EntryFragment(children[1]) \o <<NL>> \o EntryFragment(children[3])

\* C3: json_to_html never raises for an entry of the body: once the pointer
\* list is read, whatever an entry's reference resolves or fails to resolve
\* to, the loop goes on to the next entry.
C3_NeverRaisesPerNode == ~(pc = "raised" /\ idx <= Len(children))

\* C9: on a document without a pointer list json_to_html does not raise and
\* returns the empty string.
C9_NoBodyYieldsEmpty ==
    NoPointerList => /\ pc # "raised"
                     /\ Returned => ret = <<>>

---------------------------------------------------------------------------
(* Properties of the typed renderers, checked under SpecRender *)

\* the text node's content, trimmed; E is its escaped form
Trimmed == IF "text" \in DOMAIN item.v THEN Strip(item.v["text"].v) ELSE <<>>
E == escape_html(PyStr(Trimmed))

\* process_text_item returned a fragment for a node with text
TextRendered == pc = "text_returned" /\ Trimmed # <<>>

\* the flag is set in the node's formatting
Flagged(flag) ==
    /\ "formatting" \in DOMAIN item.v
    /\ flag \in DOMAIN item.v["formatting"].v
    /\ item.v["formatting"].v[flag] = PyBool(TRUE)

\* the node has this label
Labelled(label) == "label" \in DOMAIN item.v /\ item.v["label"] = PyStr(label)

\* the number of places where `sub` occurs in s
Occurrences(s, sub) ==
    Cardinality({k \in 0..(Len(s) - Len(sub)) : SubSeq(s, k + 1, k + Len(sub)) = sub})

EndsWith(s, p) == Len(s) >= Len(p) /\ SubSeq(s, Len(s) - Len(p) + 1, Len(s)) = p

\* the node with its label replaced, or removed
Relabelled(node, labels) ==
    DictOf({<<k, node.v[k]>> : k \in DOMAIN node.v \ {"label"}}
           \cup {<<"label", l>> : l \in labels})

\* C5: a bold text node renders by the length of its trimmed text: up to and
\* including 50 characters as <p><strong>E</strong></p>, from 51 characters
\* on as an <h2> element around E; and the label has no effect: the node
\* renders the same with any other label, and with none.
C5_BoldBoundary ==
    (TextRendered /\ Flagged("bold")) =>
        /\ Len(Trimmed) <= 50 =>
              ret = P_OPEN \o STRONG_OPEN \o E \o STRONG_CLOSE \o P_CLOSE
        /\ Len(Trimmed) >= 51 =>
              /\ StartsWith(ret, H2_OPEN)
              /\ EndsWith(ret, H2_CLOSE)
              /\ Contains(SubSeq(ret, Len(H2_OPEN) + 1, Len(ret) - Len(H2_CLOSE)), E)
              /\ Occurrences(ret, <<"<", "h">>) = 1
              /\ Occurrences(ret, P_OPEN) = 0
        /\ \A ls \in {{}} \cup {{l} : l \in Labels} :
              process_text_item(Relabelled(item, ls)) = Ok(ret)

\* C5 witness: a bold node of exactly 50 characters, labelled a title,
\* rendered as a strong paragraph
C5_Witness ==
    /\ TextRendered
    /\ Flagged("bold")
    /\ Len(Trimmed) = 50
    /\ Labelled(LABEL_title)
    /\ StartsWith(ret, P_OPEN \o STRONG_OPEN)

\* the escaped text in the one emphasis element the flags select
Emphasised ==
    IF Flagged("italic") THEN EM_OPEN \o E \o EM_CLOSE
    ELSE IF Flagged("underline") THEN U_OPEN \o E \o U_CLOSE
    ELSE IF Flagged("strikethrough") THEN DEL_OPEN \o E \o DEL_CLOSE
    ELSE E

\* C6: a text node that is not bold renders as the escaped trimmed text, in
\* at most one emphasis element (italic before underline before
\* strikethrough, never two of them), in <h1> when the label is title, <h3>
\* when it is heading, and <p> for any other label or none.
C6_NonBoldEmphasisAndLabel ==
    (TextRendered /\ ~Flagged("bold")) =>
        /\ ret = IF Labelled(LABEL_title) THEN H1_OPEN \o Emphasised \o H1_CLOSE
                 ELSE IF Labelled(LABEL_heading) THEN H3_OPEN \o Emphasised \o H3_CLOSE
                 ELSE P_OPEN \o Emphasised \o P_CLOSE
        /\ Occurrences(ret, EM_OPEN) + Occurrences(ret, U_OPEN)
             + Occurrences(ret, DEL_OPEN) <= 1

\* C6 witness: a heading that is underlined and struck through, not bold and
\* not italic: only the underline shows
C6_Witness ==
    /\ TextRendered
    /\ ~Flagged("bold")
    /\ ~Flagged("italic")
    /\ Flagged("underline")
    /\ Flagged("strikethrough")
    /\ Labelled(LABEL_heading)
    /\ ret = H3_OPEN \o U_OPEN \o E \o U_CLOSE \o H3_CLOSE

\* C10 as stated: a bold text node never renders an emphasis element, and a
\* bold node of more than 50 characters renders as exactly <h2>E</h2>.
C10_NoEmphasisWhenBold ==
    (TextRendered /\ Flagged("bold")) =>
        /\ Occurrences(ret, EM_OPEN) + Occurrences(ret, U_OPEN)
             + Occurrences(ret, DEL_OPEN) = 0
        /\ Len(Trimmed) > 50 => ret = H2_OPEN \o E \o H2_CLOSE

\* C10 amended: a bold text node of at most 50 characters renders as
\* <p><strong>E</strong></p>, without any emphasis element whatever the other
\* flags; a bold node of more than 50 characters renders as <h2>X</h2> where
\* X is E in the one emphasis element its flags select (italic before
\* underline before strikethrough), and E itself when none is set.
C10_EmphasisSkippedOnlyWhenShortBold ==
    (TextRendered /\ Flagged("bold")) =>
        /\ Len(Trimmed) <= 50 =>
              /\ ret = P_OPEN \o STRONG_OPEN \o E \o STRONG_CLOSE \o P_CLOSE
              /\ Occurrences(ret, EM_OPEN) + Occurrences(ret, U_OPEN)
                   + Occurrences(ret, DEL_OPEN) = 0
        /\ Len(Trimmed) > 50 => ret = H2_OPEN \o Emphasised \o H2_CLOSE

\* C10 witness: a bold, struck-through title of more than 50 characters
C10_Witness ==
    /\ TextRendered
    /\ Flagged("bold")
    /\ Flagged("strikethrough")
    /\ ~Flagged("italic")
    /\ ~Flagged("underline")
    /\ Labelled(LABEL_title)
    /\ Len(Trimmed) > 50
    /\ ret = H2_OPEN \o DEL_OPEN \o E \o DEL_CLOSE \o H2_CLOSE

\* the indices of s that hold character c, in order
Positions(s, c) == SelectSeq([k \in 1..Len(s) |-> k], LAMBDA k : s[k] = c)

\* the tags of a fragment, in order: what stands between each "<" and the
\* ">" that closes it
TagsOf(s) ==
    [i \in 1..Len(Positions(s, "<")) |->
        SubSeq(s, Positions(s, "<")[i] + 1, Positions(s, ">")[i] - 1)]

\* the grid of the table node, when it has a non-empty one
HasGrid ==
    /\ "data" \in DOMAIN item.v
    /\ "grid" \in DOMAIN item.v["data"].v
    /\ item.v["data"].v["grid"].v # <<>>
GridRows == item.v["data"].v["grid"].v

\* a field of a cell, or its default when the cell omits it
FieldOf(cell, key, default) == IF key \in DOMAIN cell.v THEN cell.v[key] ELSE default

\* the tags one cell is to render as: the opening tag with its span
\* attributes, and the closing tag
CellTags(cell) ==
    LET name == IF FieldOf(cell, "column_header", PyBool(FALSE)) = PyBool(TRUE)
                   \/ FieldOf(cell, "row_header", PyBool(FALSE)) = PyBool(TRUE)
                THEN <<"t", "h">> ELSE <<"t", "d">>
        rows == FieldOf(cell, "row_span", PyInt(1)).v[1]
        cols == FieldOf(cell, "col_span", PyInt(1)).v[1]
    IN  << name
           \o (IF rows > 1
               THEN <<" ", "r", "o", "w", "s", "p", "a", "n", "=", "\"">> \o IntToStr(rows) \o <<"\"">>
               ELSE <<>>)
           \o (IF cols > 1
               THEN <<" ", "c", "o", "l", "s", "p", "a", "n", "=", "\"">> \o IntToStr(cols) \o <<"\"">>
               ELSE <<>>),
           <<"/">> \o name >>

\* the tags one row is to render as
RowTags(row) ==
    <<<<"t", "r">>>>
    \o Concat([j \in 1..Len(row.v) |-> CellTags(row.v[j])], 1, Len(row.v))
    \o <<<<"/", "t", "r">>>>

\* C7: a table with a non-empty grid renders as one <table> element holding
\* one <tr> per row, in grid order, each holding one cell element per cell,
\* in row order: <th> if column_header or row_header is set and <td>
\* otherwise, with rowspan="N" if and only if row_span N > 1 and colspan="M"
\* if and only if col_span M > 1 (a missing span counts as 1), rowspan first;
\* and between its tags each cell holds its escaped trimmed text.
C7_TableStructure ==
    (pc = "table_returned" /\ HasGrid) =>
        /\ Len(Positions(ret, "<")) = Len(Positions(ret, ">"))
        /\ TagsOf(ret) = <<<<"t", "a", "b", "l", "e">>>>
                         \o Concat([i \in 1..Len(GridRows) |-> RowTags(GridRows[i])],
                                   1, Len(GridRows))
                         \o <<<<"/", "t", "a", "b", "l", "e">>>>
        /\ Occurrences(ret, <<"<", "t", "r", ">">>) = Len(GridRows)
        /\ \A i \in 1..Len(GridRows) : \A j \in 1..Len(GridRows[i].v) :
              LET cell == GridRows[i].v[j]
                  text == escape_html(PyStr(Strip(FieldOf(cell, "text", PyStr(<<>>)).v)))
              IN  Contains(ret, <<">">> \o text \o <<"<", "/", "t">>)

\* C7 witness: a rendered grid of two rows with a header cell, a cell that
\* spans rows only and a cell that spans both ways
C7_Witness ==
    /\ pc = "table_returned"
    /\ HasGrid
    /\ Len(GridRows) = 2
    /\ Contains(ret, <<"<", "t", "h", ">">>)
    /\ Contains(ret, <<"<", "t", "d", " ", "r", "o", "w", "s", "p", "a", "n", "=", "\"", "2", "\"", ">">>)
    /\ Contains(ret, <<"\"", " ", "c", "o", "l", "s", "p", "a", "n", "=">>)

\* the picture node carries a payload: a data field that is neither null nor
\* empty
HasPayload ==
    /\ "data" \in DOMAIN item.v
    /\ item.v["data"] # PyNone
    /\ item.v["data"] # PyStr(<<>>)

\* C8: a picture node without a payload renders as the [Missing Image]
\* placeholder, and one with payload P as an image element whose source is
\* data:image/F;base64,P, F being the node's format, png when it has none.
C8_PlaceholderWithoutPayload ==
    pc = "picture_returned" =>
        IF HasPayload
        THEN ret = IMG_HEAD \o DATA_URI_HEAD
                   \o FieldOf(item, "format", PyStr(FORMAT_png)).v
                   \o DATA_URI_SEP \o item.v["data"].v \o IMG_TAIL
        ELSE ret = PLACEHOLDER

\* the characters escape_html replaces
Special == {"&", "<", ">", "\"", "'"}

RECURSIVE Blanked(_)
\* the node with every special character of its strings replaced by a letter
Blanked(x) ==
    CASE x.t = "str" -> PyStr([k \in 1..Len(x.v) |-> IF x.v[k] \in Special THEN "x" ELSE x.v[k]])
      [] x.t = "list" -> PyList([k \in 1..Len(x.v) |-> Blanked(x.v[k])])
      [] x.t = "dict" -> PyDict([k \in DOMAIN x.v |-> Blanked(x.v[k])])
      [] OTHER -> x

\* the raw markup characters of a fragment, in order
RawMarkup(s) == SelectSeq(s, LAMBDA c : c \in Special \ {"&"})

\* every "&" of the fragment starts one of the five entities
AmpersandsEscaped(s) ==
    \A k \in 1..Len(s) :
        s[k] = "&" => \E ent \in {ENT_amp, ENT_lt, ENT_gt, ENT_quot, ENT_apos} :
                          SubSeq(s, k, k + Len(ent) - 1) = ent

\* what the renderer under check returns for a node
Rendering(node) ==
    CASE pc = "text_returned" -> ValueOf(process_text_item(node))
      [] pc = "table_returned" -> ValueOf(process_table_item(node))
      [] pc = "picture_returned" -> ValueOf(process_picture_item(node))

\* C4: no raw <, >, ", ' or & of a fragment comes from the node's content
\* (text, cell text, picture payload, picture format): the fragment has just
\* the markup characters it has when the content's special characters are
\* replaced by letters, and each of its "&" starts an entity.
C4_ContentEscaped ==
    pc \in {"text_returned", "table_returned", "picture_returned"} =>
        /\ RawMarkup(ret) = RawMarkup(Rendering(Blanked(item)))
        /\ AmpersandsEscaped(ret)

\* C4 on text nodes and tables alone
C4_TextAndTableEscaped ==
    pc \in {"text_returned", "table_returned"} =>
        /\ RawMarkup(ret) = RawMarkup(Rendering(Blanked(item)))
        /\ AmpersandsEscaped(ret)

=============================================================================
